---- MODULE Spec2Model ----
(***************************************************************************)
(* A model of the planetarium booking API (planetarium/models.py,          *)
(* planetarium/serializers.py, planetarium/views.py).                      *)
(*                                                                         *)
(* The database tables are the state.  Every HTTP handler is one action    *)
(* that runs the serializer's validation and then its create/update body;  *)
(* the concurrent specification SpecRace splits POST /reservations/ into   *)
(* its validation, insert and commit steps.                                *)
(***************************************************************************)
EXTENDS Integers, Sequences, FiniteSets, Bags, TLC

\* ------------------------------------------------------------------ bounds
MaxDomes == 2          \* dome ids are 1..MaxDomes
MaxRow == 1            \* row numbers of a request are 0..MaxRow
MaxSeats == 2          \* seats_in_row of a request is 0..MaxSeats
MaxBatch == 2          \* longest list (seat_rows, tickets) of one request
MaxReservations == 2   \* reservations created in one behaviour
MaxSessions == 2       \* show session ids are 1..MaxSessions
MaxClients == 2        \* concurrent POST /reservations/ requests (SpecRace)
MaxThemes == 1         \* show theme ids are 1..MaxThemes
MaxShows == 2          \* astronomy show ids are 1..MaxShows
MaxTime == 1           \* show_begin and the clock are instants 0..MaxTime
MaxScheduled == 6      \* sessions of the schedule (SpecSchedule)

VARIABLES
    planetarium_dome,   \* table PlanetariumDome: id -> [name]
    seat_row,           \* table SeatRow: set of [planetarium_dome, row_number, seats_in_row]
    show_theme,         \* table ShowTheme: id -> [name]
    astronomy_show,     \* table AstronomyShow: id -> [title]
    show_session,       \* table ShowSession: id -> [astronomy_show, planetarium_dome,
                        \*                            show_begin]
    reservation,        \* table Reservation: id -> [user]
    ticket,             \* table Ticket: bag of [show_session, reservation, row, seat]
    response,           \* the last HTTP response sent
    request             \* in-flight POST /reservations/ requests (SpecRace)

vars == <<planetarium_dome, seat_row, show_theme, astronomy_show,
          show_session, reservation, ticket, response, request>>

\* ------------------------------------------------------------ value sets
DomeIds == 1..MaxDomes
Names == {"Sample dome", "Zeiss hybrid dome"}
RowNumberInputs == 0..MaxRow
SeatCountInputs == 0..MaxSeats
SeatRowInputs == [row_number : RowNumberInputs, seats_in_row : SeatCountInputs]
Times == 0..MaxTime

\* The "seat_rows" / "tickets" field of a request body: left out, or a list.
Missing == [given |-> FALSE, items |-> <<>>]
Given(items) == [given |-> TRUE, items |-> items]

\* All sequences over S of length 0..n.
SeqUpTo(S, n) == UNION {[1..k -> S] : k \in 0..n}

\* The database as one value: what a transaction reads and writes.
DB == [planetarium_dome |-> planetarium_dome,
       seat_row |-> seat_row,
       show_theme |-> show_theme,
       astronomy_show |-> astronomy_show,
       show_session |-> show_session,
       reservation |-> reservation,
       ticket |-> ticket]

\* Replace the tables by those of db.
Store(db) ==
    /\ planetarium_dome' = db.planetarium_dome
    /\ seat_row' = db.seat_row
    /\ show_theme' = db.show_theme
    /\ astronomy_show' = db.astronomy_show
    /\ show_session' = db.show_session
    /\ reservation' = db.reservation
    /\ ticket' = db.ticket

NoError == "none"

\* `with transaction.atomic()`: the block's writes are kept when it returns
\* and undone when it raises.  before: the database on entry; result: the
\* block's [error, db].
AtomicNoRollback(before, result) == result.db

Atomic(before, result) ==
    IF result.error = NoError THEN result.db ELSE before

\* ------------------------------------------------------- PlanetariumDome
\* SeatRow.objects.get(planetarium_dome=d, row_number=n): the matching rows.
SeatRowsMatching(rows, d, n) ==
    {r \in rows : r.planetarium_dome = d /\ r.row_number = n}

RECURSIVE SumSeats(_)
SumSeats(rows) ==
    IF rows = {} THEN 0
    ELSE LET row == CHOOSE r \in rows : TRUE
         IN  row.seats_in_row + SumSeats(rows \ {row})

CountRows(rows, d) == Cardinality({r \in rows : r.planetarium_dome = d})

\* capacity adding one per row instead of the row's seats.
capacity_counting_rows(rows, d) == CountRows(rows, d)

\* PlanetariumDome.capacity: the loop over self.seat_rows.all().
capacity(rows, d) == SumSeats({r \in rows : r.planetarium_dome = d})

\* PlanetariumDomeSerializer.is_valid: "seat_rows" is a required,
\* non-empty list (allow_empty=False); a partial update (PATCH) may leave
\* the field out.  Row numbers and seat counts of a request are values of
\* their fields' type (non-negative integers).
DomeValidationError(field, partial) ==
    IF ~field.given THEN (IF partial THEN NoError ELSE "required")
    ELSE IF Len(field.items) = 0 THEN "empty"
    ELSE NoError

\* SeatRow.objects.create under the UniqueConstraint on
\* (planetarium_dome_id, row_number).
InsertSeatRow(db, d, item) ==
    IF SeatRowsMatching(db.seat_row, d, item.row_number) /= {}
    THEN [error |-> "IntegrityError", db |-> db]
    ELSE [error |-> NoError,
          db |-> [db EXCEPT !.seat_row = @ \cup
                    {[planetarium_dome |-> d,
                      row_number |-> item.row_number,
                      seats_in_row |-> item.seats_in_row]}]]

\* The loop of PlanetariumDomeSerializer.create from row i on.
RECURSIVE CreateSeatRows(_, _, _, _)
CreateSeatRows(db, d, rows, i) ==
    IF i > Len(rows) THEN [error |-> NoError, db |-> db]
    ELSE LET r == InsertSeatRow(db, d, rows[i])
         IN  IF r.error /= NoError THEN r
             ELSE CreateSeatRows(r.db, d, rows, i + 1)

NextDomeId(db) == Cardinality(DOMAIN db.planetarium_dome) + 1

\* The body of PlanetariumDomeSerializer.create.
DomeCreateBody(db, name, field) ==
    LET d == NextDomeId(db)
        withDome == [db EXCEPT !.planetarium_dome =
                        [x \in DOMAIN @ \cup {d} |->
                            IF x = d THEN [name |-> name] ELSE @[x]]]
    IN  CreateSeatRows(withDome, d, field.items, 1)

\* The update loop leaving a stored row's seats_in_row as it was.
RECURSIVE UpdateSeatRowsKeepingSeats(_, _, _, _, _)
UpdateSeatRowsKeepingSeats(db, d, rows, i, validated_rows) ==
    IF i > Len(rows) THEN [error |-> NoError, db |-> db]
    ELSE LET row_number == rows[i].row_number
             found == SeatRowsMatching(db.seat_row, d, row_number)
         IN  IF row_number \in validated_rows
             THEN [error |-> "duplicate_row", db |-> db]
             ELSE IF found /= {}
             THEN UpdateSeatRowsKeepingSeats(db, d, rows, i + 1,
                                             validated_rows \cup {row_number})
             ELSE LET r == InsertSeatRow(db, d, rows[i])
                  IN  IF r.error /= NoError THEN r
                      ELSE UpdateSeatRowsKeepingSeats(r.db, d, rows, i + 1,
                                          validated_rows \cup {row_number})

\* The update loop replacing the layout: the dome's rows that the list does
\* not name are deleted at the end.
RECURSIVE UpdateSeatRowsReplacingLayout(_, _, _, _, _)
UpdateSeatRowsReplacingLayout(db, d, rows, i, validated_rows) ==
    IF i > Len(rows)
    THEN [error |-> NoError,
          db |-> [db EXCEPT !.seat_row =
                    {x \in @ : x.planetarium_dome /= d
                                  \/ x.row_number \in validated_rows}]]
    ELSE LET row_number == rows[i].row_number
             found == SeatRowsMatching(db.seat_row, d, row_number)
         IN  IF row_number \in validated_rows
             THEN [error |-> "duplicate_row", db |-> db]
             ELSE IF found /= {}
             THEN UpdateSeatRowsReplacingLayout(
                    [db EXCEPT !.seat_row = (@ \ found) \cup
                        {[planetarium_dome |-> d,
                          row_number |-> row_number,
                          seats_in_row |-> rows[i].seats_in_row]}],
                    d, rows, i + 1, validated_rows \cup {row_number})
             ELSE LET r == InsertSeatRow(db, d, rows[i])
                  IN  IF r.error /= NoError THEN r
                      ELSE UpdateSeatRowsReplacingLayout(r.db, d, rows, i + 1,
                                          validated_rows \cup {row_number})

\* The loop of PlanetariumDomeSerializer.update from row i on;
\* validated_rows are the row numbers seen so far.
RECURSIVE UpdateSeatRows(_, _, _, _, _)
UpdateSeatRows(db, d, rows, i, validated_rows) ==
    IF i > Len(rows) THEN [error |-> NoError, db |-> db]
    ELSE LET row_number == rows[i].row_number
             found == SeatRowsMatching(db.seat_row, d, row_number)
         IN  IF row_number \in validated_rows
             THEN [error |-> "duplicate_row", db |-> db]
             ELSE IF found /= {}
             THEN UpdateSeatRows(
                    [db EXCEPT !.seat_row = (@ \ found) \cup
                        {[planetarium_dome |-> d,
                          row_number |-> row_number,
                          seats_in_row |-> rows[i].seats_in_row]}],
                    d, rows, i + 1, validated_rows \cup {row_number})
             ELSE LET r == InsertSeatRow(db, d, rows[i])
                  IN  IF r.error /= NoError THEN r
                      ELSE UpdateSeatRows(r.db, d, rows, i + 1,
                                          validated_rows \cup {row_number})

\* The body of PlanetariumDomeSerializer.update: validated_data.pop("seat_rows")
\* raises KeyError when a partial update left the field out; name and
\* description are never written to the instance.
DomeUpdateBody(db, d, name, field) ==
    IF ~field.given THEN [error |-> "KeyError", db |-> db]
    ELSE UpdateSeatRows(db, d, field.items, 1, {})

\* HTTP status of an outcome: serializer ValidationErrors are answered 400,
\* NotAuthenticated 401, PermissionDenied 403, Http404 404, MethodNotAllowed
\* 405, and an exception the framework does not handle 500.
StatusOf(error, success) ==
    CASE error = NoError -> success
      [] error \in {"required", "empty", "duplicate_row", "does_not_exist",
                    "unique", "seat_range"} -> 400
      [] error = "NotAuthenticated" -> 401
      [] error = "PermissionDenied" -> 403
      [] error = "Http404" -> 404
      [] error = "MethodNotAllowed" -> 405
      [] OTHER -> 500

NoDetail == [field |-> "none"]

\* The response of a handler: the operation, the outcome, the id of the
\* object the body represents (0: none) and the detail of a field error.
\* The body itself is the serializer's representation of that object,
\* computed from the tables (DomeBody).
Respond(op, error, success, id, detail) ==
    response' = [op |-> op, status |-> StatusOf(error, success),
                 error |-> error, id |-> IF error = NoError THEN id ELSE 0,
                 detail |-> detail]

\* The representation of dome d in a response (PlanetariumDomeSerializer).
DomeBody(db, d) ==
    [id |-> d,
     name |-> db.planetarium_dome[d].name,
     capacity |-> capacity(db.seat_row, d),
     seat_rows |-> {[row_number |-> r.row_number, seats_in_row |-> r.seats_in_row] :
                        r \in {x \in db.seat_row : x.planetarium_dome = d}}]

DomeRowLists == {Given(l) : l \in SeqUpTo(SeatRowInputs, MaxBatch)} \cup {Missing}

\* What a handler does to the database db: the error it ends with (NoError:
\* success), the error's detail, the id of the object written and the
\* database it leaves.
Outcome(error, detail, id, db) ==
    [error |-> error, detail |-> detail, id |-> id, db |-> db]

\* CreateModelMixin.create for domes: is_valid(), then serializer.create.
DomeCreateOutcome(db, name, field) ==
    LET invalid == DomeValidationError(field, FALSE)
        result == DomeCreateBody(db, name, field)
    IN  IF invalid /= NoError THEN Outcome(invalid, NoDetail, 0, db)
        ELSE Outcome(result.error, NoDetail, NextDomeId(db), Atomic(db, result))

\* UpdateModelMixin.update / partial_update for domes: get_object(),
\* is_valid(), then serializer.update.
DomeUpdateOutcome(db, d, partial, name, field) ==
    LET invalid == DomeValidationError(field, partial)
        result == DomeUpdateBody(db, d, name, field)
    IN  IF d \notin DOMAIN db.planetarium_dome
        THEN Outcome("Http404", NoDetail, 0, db)
        ELSE IF invalid /= NoError THEN Outcome(invalid, NoDetail, 0, db)
        ELSE Outcome(result.error, NoDetail, d, Atomic(db, result))

\* POST /planetarium_domes/
CreateDome(name, rows) ==
    /\ Cardinality(DOMAIN planetarium_dome) < MaxDomes
    /\ LET out == DomeCreateOutcome(DB, name, rows)
       IN  /\ Store(out.db)
           /\ Respond("create_dome", out.error, 201, out.id, out.detail)
    /\ UNCHANGED request

\* PUT (partial = FALSE) or PATCH (partial = TRUE) /planetarium_domes/{d}/
UpdateDome(d, partial, name, rows) ==
    /\ LET out == DomeUpdateOutcome(DB, d, partial, name, rows)
       IN  /\ Store(out.db)
           /\ Respond("update_dome", out.error, 200, out.id, out.detail)
    /\ UNCHANGED request

\* GET /planetarium_domes/{d}/
RetrieveDome(d) ==
    /\ IF d \notin DOMAIN planetarium_dome
       THEN Respond("retrieve_dome", "Http404", 200, 0, NoDetail)
       ELSE Respond("retrieve_dome", NoError, 200, d, NoDetail)
    /\ UNCHANGED <<planetarium_dome, seat_row, show_theme, astronomy_show,
                   show_session, reservation, ticket, request>>

NoResponse == [op |-> "none", status |-> 0, error |-> NoError, id |-> 0,
               detail |-> NoDetail]

\* ----------------------------------------------------------- ShowSession
\* PUT /show_sessions/{s}/: ModelSerializer.update writes the validated
\* fields to the instance; the dome is a PrimaryKeyRelatedField.
UpdateSession(s, d) ==
    /\ IF s \notin DOMAIN show_session
       THEN /\ Respond("update_session", "Http404", 200, 0, NoDetail)
            /\ UNCHANGED show_session
       ELSE IF d \notin DOMAIN planetarium_dome
       THEN /\ Respond("update_session", "does_not_exist", 200, 0,
                       [field |-> "planetarium_dome"])
            /\ UNCHANGED show_session
       ELSE /\ show_session' = [show_session EXCEPT ![s].planetarium_dome = d]
            /\ Respond("update_session", NoError, 200, s, NoDetail)
    /\ UNCHANGED <<planetarium_dome, seat_row, show_theme, astronomy_show,
                   reservation, ticket, request>>

\* ------------------------------------------------- Ticket and Reservation
\* Ticket.Meta.unique_together = ["show_session", "row", "seat"]: the rows
\* of tks that already hold the seat.
SeatTakenNever(tks, s, row, seat) == FALSE

SeatTaken(tks, s, row, seat) ==
    \E t \in BagToSet(tks) :
        t.show_session = s /\ t.row = row /\ t.seat = seat

\* validate_seat with the range check starting at seat 0.
validate_seat_from_zero(rows, row_number, seat, d) ==
    LET found == SeatRowsMatching(rows, d, row_number)
    IN  IF found = {} THEN [error |-> "DoesNotExist", detail |-> NoDetail]
        ELSE LET row == CHOOSE r \in found : TRUE
             IN  IF ~(0 <= seat /\ seat <= row.seats_in_row)
                 THEN [error |-> "seat_range",
                       detail |-> [field |-> "seat", lo |-> 1,
                                   hi |-> row.seats_in_row, got |-> seat]]
                 ELSE [error |-> NoError, detail |-> NoDetail]

\* Ticket.validate_seat: SeatRow.objects.get raises DoesNotExist when the
\* dome has no such row; the range check raises error_to_raise.
validate_seat(rows, row_number, seat, d) ==
    LET found == SeatRowsMatching(rows, d, row_number)
    IN  IF found = {} THEN [error |-> "DoesNotExist", detail |-> NoDetail]
        ELSE LET row == CHOOSE r \in found : TRUE
             IN  IF ~(1 <= seat /\ seat <= row.seats_in_row)
                 THEN [error |-> "seat_range",
                       detail |-> [field |-> "seat", lo |-> 1,
                                   hi |-> row.seats_in_row, got |-> seat]]
                 ELSE [error |-> NoError, detail |-> NoDetail]

\* TicketSerializer.validate: Ticket.validate_seat against the dome of the
\* ticket's session.
validate(db, t) ==
    validate_seat(db.seat_row, t.row, t.seat,
                  db.show_session[t.show_session].planetarium_dome)

\* Ticket.clean doing nothing.
clean_without_validate_seat(db, t) == [error |-> NoError, detail |-> NoDetail]

\* Ticket.clean: Ticket.validate_seat against the dome of self.show_session.
clean(db, t) ==
    validate_seat(db.seat_row, t.row, t.seat,
                  db.show_session[t.show_session].planetarium_dome)

\* TicketSerializer.run_validation answering an unknown show_session with
\* Http404 (get_object_or_404) instead of the field's ValidationError.
TicketValidationRaising404(db, t) ==
    IF t.show_session \notin DOMAIN db.show_session
    THEN [error |-> "Http404", detail |-> [field |-> "show_session"]]
    ELSE IF SeatTaken(db.ticket, t.show_session, t.row, t.seat)
    THEN [error |-> "unique", detail |-> [field |-> "non_field_errors"]]
    ELSE validate_seat(db.seat_row, t.row, t.seat,
                       db.show_session[t.show_session].planetarium_dome)

\* TicketSerializer.run_validation of one ticket of the request: the
\* show_session primary key must exist, the UniqueTogetherValidator that
\* ModelSerializer derives from unique_together must pass, then validate().
TicketValidation(db, t) ==
    IF t.show_session \notin DOMAIN db.show_session
    THEN [error |-> "does_not_exist", detail |-> [field |-> "show_session"]]
    ELSE IF SeatTaken(db.ticket, t.show_session, t.row, t.seat)
    THEN [error |-> "unique", detail |-> [field |-> "non_field_errors"]]
    ELSE validate(db, t)

\* ReservationSerializer.is_valid: "tickets" is a required non-empty list;
\* the list serializer validates the tickets in order and collects their
\* errors, while an exception that is no ValidationError (DoesNotExist)
\* leaves the loop at once.  The outcome names the first ticket in error.
RECURSIVE TicketsValidation(_, _, _, _)
TicketsValidation(db, items, i, first) ==
    IF i > Len(items) THEN first
    ELSE LET v == TicketValidation(db, items[i])
         IN  IF v.error = "DoesNotExist" THEN v
             ELSE TicketsValidation(db, items, i + 1,
                    IF first.error = NoError THEN v ELSE first)

ReservationValidation(db, field) ==
    IF ~field.given THEN [error |-> "required", detail |-> [field |-> "tickets"]]
    ELSE IF Len(field.items) = 0
    THEN [error |-> "empty", detail |-> [field |-> "tickets"]]
    ELSE TicketsValidation(db, field.items, 1,
                           [error |-> NoError, detail |-> NoDetail])

\* Ticket.full_clean: clean() runs validate_seat, then validate_unique()
\* raises django's ValidationError, which the API does not handle.
full_clean(db, t) ==
    LET cleaned == clean(db, t)
    IN  IF cleaned.error /= NoError THEN cleaned
        ELSE IF SeatTaken(db.ticket, t.show_session, t.row, t.seat)
        THEN [error |-> "DjangoValidationError", detail |-> NoDetail]
        ELSE [error |-> NoError, detail |-> NoDetail]

\* The unique index of unique_together, checked by the INSERT.
UniqueIndexViolationNever(tks, t) == FALSE

UniqueIndexViolation(tks, t) == SeatTaken(tks, t.show_session, t.row, t.seat)

TicketRow(res, t) ==
    [show_session |-> t.show_session, reservation |-> res,
     row |-> t.row, seat |-> t.seat]

\* Ticket.save: full_clean(), then the INSERT of super().save().
TicketSave(db, res, t) ==
    LET cleaned == full_clean(db, t)
    IN  IF cleaned.error /= NoError
        THEN [error |-> cleaned.error, detail |-> cleaned.detail, db |-> db]
        ELSE IF UniqueIndexViolation(db.ticket, t)
        THEN [error |-> "IntegrityError", detail |-> NoDetail, db |-> db]
        ELSE [error |-> NoError, detail |-> NoDetail,
              db |-> [db EXCEPT !.ticket = @ (+) SetToBag({TicketRow(res, t)})]]

\* The loop of ReservationSerializer.create from ticket i on.
RECURSIVE CreateTickets(_, _, _, _)
CreateTickets(db, res, items, i) ==
    IF i > Len(items) THEN [error |-> NoError, detail |-> NoDetail, db |-> db]
    ELSE LET r == TicketSave(db, res, items[i])
         IN  IF r.error /= NoError THEN r
             ELSE CreateTickets(r.db, res, items, i + 1)

NextReservationId(db) == Cardinality(DOMAIN db.reservation) + 1

\* The body of ReservationSerializer.create; perform_create supplies the user.
ReservationCreateBody(db, user, field) ==
    LET res == NextReservationId(db)
        withReservation == [db EXCEPT !.reservation =
                        [x \in DOMAIN @ \cup {res} |->
                            IF x = res THEN [user |-> user] ELSE @[x]]]
    IN  CreateTickets(withReservation, res, field.items, 1)

\* CreateModelMixin.create for reservations: is_valid(), then
\* perform_create -> serializer.create.
ReservationOutcome(db, user, field) ==
    LET invalid == ReservationValidation(db, field)
        result == ReservationCreateBody(db, user, field)
    IN  IF invalid.error /= NoError
        THEN Outcome(invalid.error, invalid.detail, 0, db)
        ELSE Outcome(result.error, result.detail, NextReservationId(db),
                     Atomic(db, result))

\* POST /reservations/ by an authenticated user.
CreateReservation(user, field) ==
    /\ Cardinality(DOMAIN reservation) < MaxReservations
    /\ LET out == ReservationOutcome(DB, user, field)
       IN  /\ Store(out.db)
           /\ Respond("create_reservation", out.error, 201, out.id, out.detail)
    /\ UNCHANGED request

\* ------------------------------------------ authentication and permissions
\* request.user of a request without credentials.
Anonymous == "AnonymousUser"

\* The accounts: two customers and a staff member.
Accounts == {"test@test.com", "other@test.com", "admin@admin.com"}
Callers == Accounts \cup {Anonymous}

is_authenticated(user) == user /= Anonymous
is_staff(user) == user = "admin@admin.com"

Methods == {"GET", "POST", "PUT", "PATCH", "DELETE"}
SAFE_METHODS == {"GET"}

ReferenceViewSets == {"planetarium_domes", "show_themes", "astronomy_shows",
                      "show_sessions"}
ViewSets == ReferenceViewSets \cup {"reservations"}

\* Every viewset guarded by IsAuthenticated.
permission_classes_authenticated(viewset) == "IsAuthenticated"

\* Every viewset guarded by IsAdminOrReadOnly.
permission_classes_read_only(viewset) == "IsAdminOrReadOnly"

\* permission_classes of the viewsets.
permission_classes(viewset) ==
    IF viewset = "reservations" THEN "IsAuthenticated" ELSE "IsAdminOrReadOnly"

\* planetarium.permissions.IsAdminOrReadOnly.has_permission: reads are
\* public, writes are for staff.
IsAdminOrReadOnly(user, method) ==
    method \in SAFE_METHODS \/ (is_authenticated(user) /\ is_staff(user))

\* rest_framework.permissions.IsAuthenticated.has_permission
IsAuthenticated(user, method) == is_authenticated(user)

has_permission(viewset, user, method) ==
    IF permission_classes(viewset) = "IsAuthenticated"
    THEN IsAuthenticated(user, method)
    ELSE IsAdminOrReadOnly(user, method)

\* Every detail route also bound to update, partial_update and destroy.
action_map_of_model_viewset(viewset, detail) ==
    IF detail THEN {"GET", "PUT", "PATCH", "DELETE"} ELSE {"GET", "POST"}

\* The methods the router binds to actions of the viewset, by its mixins:
\* list and create on the list route; retrieve on the detail route, with
\* update and partial_update where the viewset has UpdateModelMixin and
\* destroy where it is a ModelViewSet.
action_map(viewset, detail) ==
    IF ~detail THEN {"GET", "POST"}
    ELSE CASE viewset = "reservations" -> {"GET"}
           [] viewset = "astronomy_shows" -> {"GET", "PUT", "PATCH", "DELETE"}
           [] OTHER -> {"GET", "PUT", "PATCH"}

\* dispatch looking the handler up before initial() runs.
dispatch_method_first(viewset, detail, method, user) ==
    IF method \notin action_map(viewset, detail) THEN "MethodNotAllowed"
    ELSE IF ~has_permission(viewset, user, method)
    THEN (IF is_authenticated(user) THEN "PermissionDenied" ELSE "NotAuthenticated")
    ELSE NoError

\* APIView.dispatch: initial() authenticates the request and checks the
\* permissions (a refused request without credentials is NotAuthenticated,
\* TokenAuthentication supplying the WWW-Authenticate header); only then is
\* the handler of the method looked up.
dispatch(viewset, detail, method, user) ==
    IF ~has_permission(viewset, user, method)
    THEN (IF is_authenticated(user) THEN "PermissionDenied" ELSE "NotAuthenticated")
    ELSE IF method \notin action_map(viewset, detail) THEN "MethodNotAllowed"
    ELSE NoError

\* The request line a refusal refers to; pk is 0 on the list route.
RequestLine(viewset, method, pk) ==
    [viewset |-> viewset, method |-> method, pk |-> pk]

SuccessStatus(method) ==
    CASE method = "POST" -> 201
      [] method = "DELETE" -> 204
      [] OTHER -> 200

\* The response of a view to the outcome out of a request.
ViewResponse(viewset, method, out) ==
    Respond(viewset, out.error, SuccessStatus(method), out.id, out.detail)

\* ReservationViewSet.get_queryset without the filter on the user.
get_queryset_of_all_users(db, user) == DOMAIN db.reservation

\* ReservationViewSet.get_queryset: the reservations of request.user.
get_queryset(db, user) ==
    {r \in DOMAIN db.reservation : db.reservation[r].user = user}

\* ReservationViewSet: dispatch, then list, create or retrieve.
ReservationView(db, user, method, detail, pk, field) ==
    LET gate == dispatch("reservations", detail, method, user)
        line == RequestLine("reservations", method, IF detail THEN pk ELSE 0)
    IN  IF gate /= NoError THEN Outcome(gate, line, 0, db)
        ELSE CASE method = "POST" -> ReservationOutcome(db, user, field)
               [] method = "GET" /\ ~detail ->
                    Outcome(NoError, [results |-> get_queryset(db, user)], 0, db)
               [] method = "GET" /\ detail ->
                    IF pk \in get_queryset(db, user)
                    THEN Outcome(NoError, line, pk, db)
                    ELSE Outcome("Http404", line, 0, db)
               [] OTHER -> Outcome("AttributeError", line, 0, db)

\* A request to /reservations/ or /reservations/{pk}/.
ReservationViewSet(user, method, detail, pk, field) ==
    /\ (method = "POST" /\ dispatch("reservations", detail, method, user) = NoError)
            => Cardinality(DOMAIN reservation) < MaxReservations
    /\ LET out == ReservationView(DB, user, method, detail, pk, field)
       IN  /\ Store(out.db)
           /\ ViewResponse("reservations", method, out)
    /\ UNCHANGED request

\* --------------------------------------------- reference data viewsets
\* The primary key of the next row of a table.
NextPk(table) ==
    IF DOMAIN table = {} THEN 1
    ELSE (CHOOSE n \in DOMAIN table : \A m \in DOMAIN table : m <= n) + 1

\* The table with row pk set to row.
WithRow(table, pk, row) ==
    [x \in DOMAIN table \cup {pk} |-> IF x = pk THEN row ELSE table[x]]

WithoutRow(table, pk) == [x \in DOMAIN table \ {pk} |-> table[x]]

\* The list and retrieve actions of a viewset over table.
ReadOutcome(db, table, line, detail, pk) ==
    IF ~detail THEN Outcome(NoError, [results |-> DOMAIN table], 0, db)
    ELSE IF pk \in DOMAIN table THEN Outcome(NoError, line, pk, db)
    ELSE Outcome("Http404", line, 0, db)

\* PlanetariumDomeViewSet: dispatch, then list, create, retrieve, update or
\* partial_update.
PlanetariumDomeView(db, user, method, detail, pk, name, field) ==
    LET gate == dispatch("planetarium_domes", detail, method, user)
        line == RequestLine("planetarium_domes", method, 0)
    IN  IF gate /= NoError THEN Outcome(gate, line, 0, db)
        ELSE CASE method = "POST" -> DomeCreateOutcome(db, name, field)
               [] method = "GET" ->
                    ReadOutcome(db, db.planetarium_dome, line, detail, pk)
               [] method = "PUT" -> DomeUpdateOutcome(db, pk, FALSE, name, field)
               [] method = "PATCH" -> DomeUpdateOutcome(db, pk, TRUE, name, field)
               [] OTHER -> Outcome("AttributeError", line, 0, db)

\* ShowThemeViewSet with ShowThemeSerializer (fields id, name).
ShowThemeView(db, user, method, detail, pk, name) ==
    LET gate == dispatch("show_themes", detail, method, user)
        line == RequestLine("show_themes", method, 0)
        new == NextPk(db.show_theme)
    IN  IF gate /= NoError THEN Outcome(gate, line, 0, db)
        ELSE CASE method = "POST" ->
                    Outcome(NoError, NoDetail, new,
                        [db EXCEPT !.show_theme = WithRow(@, new, [name |-> name])])
               [] method = "GET" ->
                    ReadOutcome(db, db.show_theme, line, detail, pk)
               [] method \in {"PUT", "PATCH"} ->
                    IF pk \notin DOMAIN db.show_theme
                    THEN Outcome("Http404", line, 0, db)
                    ELSE Outcome(NoError, NoDetail, pk,
                            [db EXCEPT !.show_theme[pk].name = name])
               [] OTHER -> Outcome("AttributeError", line, 0, db)

\* ShowSession.astronomy_show with on_delete=models.DO_NOTHING.
PROTECT_nothing(db, pk) == {}

\* ShowSession.astronomy_show, on_delete=models.PROTECT: the sessions that
\* keep show pk from being deleted.
PROTECT(db, pk) ==
    {s \in DOMAIN db.show_session : db.show_session[s].astronomy_show = pk}

\* AstronomyShowViewSet (a ModelViewSet) with AstronomyShowSerializer;
\* destroy raises ProtectedError for a show that has sessions.
AstronomyShowView(db, user, method, detail, pk, title) ==
    LET gate == dispatch("astronomy_shows", detail, method, user)
        line == RequestLine("astronomy_shows", method, 0)
        new == NextPk(db.astronomy_show)
    IN  IF gate /= NoError THEN Outcome(gate, line, 0, db)
        ELSE CASE method = "POST" ->
                    Outcome(NoError, NoDetail, new,
                        [db EXCEPT !.astronomy_show =
                            WithRow(@, new, [title |-> title])])
               [] method = "GET" ->
                    ReadOutcome(db, db.astronomy_show, line, detail, pk)
               [] method \in {"PUT", "PATCH"} ->
                    IF pk \notin DOMAIN db.astronomy_show
                    THEN Outcome("Http404", line, 0, db)
                    ELSE Outcome(NoError, NoDetail, pk,
                            [db EXCEPT !.astronomy_show[pk].title = title])
               [] method = "DELETE" ->
                    IF pk \notin DOMAIN db.astronomy_show
                    THEN Outcome("Http404", line, 0, db)
                    ELSE IF PROTECT(db, pk) /= {}
                    THEN Outcome("ProtectedError", line, 0, db)
                    ELSE Outcome(NoError, NoDetail, 0,
                            [db EXCEPT !.astronomy_show = WithoutRow(@, pk)])
               [] OTHER -> Outcome("AttributeError", line, 0, db)

\* ShowSessionSerializer.is_valid: astronomy_show and planetarium_dome are
\* primary keys that must exist.
SessionValidation(db, show, d) ==
    IF show \notin DOMAIN db.astronomy_show
    THEN [error |-> "does_not_exist", detail |-> [field |-> "astronomy_show"]]
    ELSE IF d \notin DOMAIN db.planetarium_dome
    THEN [error |-> "does_not_exist", detail |-> [field |-> "planetarium_dome"]]
    ELSE [error |-> NoError, detail |-> NoDetail]

\* ShowSessionViewSet with ShowSessionSerializer.
ShowSessionView(db, user, method, detail, pk, show, d, show_begin) ==
    LET gate == dispatch("show_sessions", detail, method, user)
        line == RequestLine("show_sessions", method, 0)
        new == NextPk(db.show_session)
        invalid == SessionValidation(db, show, d)
        row == [astronomy_show |-> show, planetarium_dome |-> d,
                show_begin |-> show_begin]
    IN  IF gate /= NoError THEN Outcome(gate, line, 0, db)
        ELSE CASE method = "POST" ->
                    IF invalid.error /= NoError
                    THEN Outcome(invalid.error, invalid.detail, 0, db)
                    ELSE Outcome(NoError, NoDetail, new,
                            [db EXCEPT !.show_session = WithRow(@, new, row)])
               [] method = "GET" ->
                    ReadOutcome(db, db.show_session, line, detail, pk)
               [] method \in {"PUT", "PATCH"} ->
                    IF pk \notin DOMAIN db.show_session
                    THEN Outcome("Http404", line, 0, db)
                    ELSE IF invalid.error /= NoError
                    THEN Outcome(invalid.error, invalid.detail, 0, db)
                    ELSE Outcome(NoError, NoDetail, pk,
                            [db EXCEPT !.show_session[pk] = row])
               [] OTHER -> Outcome("AttributeError", line, 0, db)

\* A request to /planetarium_domes/ or /planetarium_domes/{pk}/.
PlanetariumDomeViewSet(user, method, detail, pk, name, field) ==
    /\ (method = "POST" /\ dispatch("planetarium_domes", detail, method, user) = NoError)
            => Cardinality(DOMAIN planetarium_dome) < MaxDomes
    /\ LET out == PlanetariumDomeView(DB, user, method, detail, pk, name, field)
       IN  /\ Store(out.db)
           /\ ViewResponse("planetarium_domes", method, out)
    /\ UNCHANGED request

\* A request to /show_themes/ or /show_themes/{pk}/.
ShowThemeViewSet(user, method, detail, pk, name) ==
    /\ (method = "POST" /\ dispatch("show_themes", detail, method, user) = NoError)
            => NextPk(show_theme) <= MaxThemes
    /\ LET out == ShowThemeView(DB, user, method, detail, pk, name)
       IN  /\ Store(out.db)
           /\ ViewResponse("show_themes", method, out)
    /\ UNCHANGED request

\* A request to /astronomy_shows/ or /astronomy_shows/{pk}/.
AstronomyShowViewSet(user, method, detail, pk, title) ==
    /\ (method = "POST" /\ dispatch("astronomy_shows", detail, method, user) = NoError)
            => NextPk(astronomy_show) <= MaxShows
    /\ LET out == AstronomyShowView(DB, user, method, detail, pk, title)
       IN  /\ Store(out.db)
           /\ ViewResponse("astronomy_shows", method, out)
    /\ UNCHANGED request

\* A request to /show_sessions/ or /show_sessions/{pk}/.
ShowSessionViewSet(user, method, detail, pk, show, d, show_begin) ==
    /\ (method = "POST" /\ dispatch("show_sessions", detail, method, user) = NoError)
            => NextPk(show_session) <= MaxSessions
    /\ LET out == ShowSessionView(DB, user, method, detail, pk, show, d, show_begin)
       IN  /\ Store(out.db)
           /\ ViewResponse("show_sessions", method, out)
    /\ UNCHANGED request

\* get_available_seats counting the tickets of every session.
get_available_seats_of_all_sessions(db, s) ==
    capacity(db.seat_row, db.show_session[s].planetarium_dome)
        - BagCardinality(db.ticket)

\* ShowSessionListSerializer.get_available_seats
get_available_seats(db, s) ==
    LET of_session == {t \in BagToSet(db.ticket) : t.show_session = s}
        all_places == capacity(db.seat_row, db.show_session[s].planetarium_dome)
        sold_places == BagCardinality([t \in of_session |-> db.ticket[t]])
    IN  all_places - sold_places

\* The empty database.
InitDome ==
    /\ planetarium_dome = <<>>
    /\ seat_row = {}
    /\ show_theme = <<>>
    /\ astronomy_show = <<>>
    /\ show_session = <<>>
    /\ reservation = <<>>
    /\ ticket = EmptyBag
    /\ response = NoResponse
    /\ request = <<>>

NextDome ==
    \/ \E name \in Names, rows \in DomeRowLists : CreateDome(name, rows)
    \/ \E d \in DomeIds, partial \in BOOLEAN, name \in Names, rows \in DomeRowLists :
            UpdateDome(d, partial, name, rows)
    \/ \E d \in DomeIds : RetrieveDome(d)

SpecDome == InitDome /\ [][NextDome]_vars

\* ------------------------------------------------------------ booking
SessionIds == 1..MaxSessions

\* The astronomy show the sessions of the fixture present.
SampleShows == <<[title |-> "Sample title"]>>
Users == {"test@test.com"}
TicketInputs == [show_session : 1..(MaxSessions + 1), row : RowNumberInputs,
                 seat : 0..(MaxSeats + 1)]
TicketLists == {Given(l) : l \in SeqUpTo(TicketInputs, MaxBatch)} \cup {Missing}

\* The layout edits of the booking specification: one row per request.
LayoutEdits == {Given(<<[row_number |-> MaxRow, seats_in_row |-> k]>>) :
                    k \in SeatCountInputs}

\* A planetarium with its domes and sessions set up: every dome has row
\* MaxRow, dome d with MaxSeats + 1 - d seats (at least one), and every
\* session presents the sample show in a dome.
Init ==
    /\ planetarium_dome = [d \in DomeIds |-> [name |-> "Sample dome"]]
    /\ seat_row = {[planetarium_dome |-> d, row_number |-> MaxRow,
                    seats_in_row |-> IF d <= MaxSeats THEN MaxSeats + 1 - d ELSE 1] :
                        d \in DomeIds}
    /\ show_theme = <<>>
    /\ astronomy_show = SampleShows
    /\ show_session \in [SessionIds -> [astronomy_show : DOMAIN SampleShows,
                                         planetarium_dome : DomeIds,
                                         show_begin : {MaxTime}]]
    /\ reservation = <<>>
    /\ ticket = EmptyBag
    /\ response = NoResponse
    /\ request = <<>>

Next ==
    \/ \E user \in Users, field \in TicketLists : CreateReservation(user, field)
    \/ \E d \in DomeIds, name \in Names, rows \in LayoutEdits :
            UpdateDome(d, FALSE, name, rows)
    \/ \E s \in SessionIds, d \in DomeIds : UpdateSession(s, d)

Spec == Init /\ [][Next]_vars

\* ------------------------------------------------------ layout updates
\* The row lists of the layout specification: rows of at least one seat.
LayoutLists ==
    {Given(l) : l \in SeqUpTo([row_number : RowNumberInputs,
                               seats_in_row : 1..MaxSeats], MaxBatch)}
        \cup {Missing}

NoInstance == [id |-> 0]

\* PUT /planetarium_domes/{d}/ as the view runs it: get_object() loads the
\* instance, then the update of UpdateDome; the request and the instance it
\* loaded are kept beside the response.
PutDome(d, name, rows) ==
    /\ request' = [d |-> d, name |-> name, field |-> rows,
                   instance |-> IF d \in DOMAIN planetarium_dome
                                THEN DomeBody(DB, d) ELSE NoInstance]
    /\ LET out == DomeUpdateOutcome(DB, d, FALSE, name, rows)
       IN  /\ Store(out.db)
           /\ Respond("update_dome", out.error, 200, out.id, out.detail)

\* The tables of Init with session s scheduled in dome s.
Fixture ==
    /\ planetarium_dome = [d \in DomeIds |-> [name |-> "Sample dome"]]
    /\ seat_row = {[planetarium_dome |-> d, row_number |-> MaxRow,
                    seats_in_row |-> IF d <= MaxSeats THEN MaxSeats + 1 - d ELSE 1] :
                        d \in DomeIds}
    /\ show_theme = <<>>
    /\ astronomy_show = SampleShows
    /\ show_session = [s \in SessionIds |->
                        [astronomy_show |-> 1,
                         planetarium_dome |-> IF s \in DomeIds THEN s ELSE 1,
                         show_begin |-> MaxTime]]
    /\ reservation = <<>>
    /\ ticket = EmptyBag

InitLayout ==
    /\ Fixture
    /\ response = NoResponse
    /\ request = [d |-> 0, name |-> "none", field |-> Missing,
                  instance |-> NoInstance]

NextLayout ==
    \E d \in 1..(MaxDomes + 1), name \in Names, rows \in LayoutLists :
        PutDome(d, name, rows)

SpecLayout == InitLayout /\ [][NextLayout]_vars

\* ------------------------------------------------- access to reservations
\* The ticket lists of the access specification: one seat of row MaxRow in
\* session 1, among them a seat past the end of the row.
AccessLists ==
    {Given(<<[show_session |-> 1, row |-> MaxRow, seat |-> k]>>) :
        k \in 1..(MaxSeats + 1)}

InitAccess ==
    /\ Fixture
    /\ response = NoResponse
    /\ request = <<>>

NextAccess ==
    \E user \in Callers, method \in Methods, detail \in BOOLEAN,
       pk \in 1..(MaxReservations + 1), field \in AccessLists :
        ReservationViewSet(user, method, detail, pk, field)

SpecAccess == InitAccess /\ [][NextAccess]_vars

\* ------------------------------------------------ access to reference data
\* One dome with one row, one show and one session of it; no theme yet.
InitAdmin ==
    /\ planetarium_dome = <<[name |-> "Sample dome"]>>
    /\ seat_row = {[planetarium_dome |-> 1, row_number |-> MaxRow,
                    seats_in_row |-> MaxSeats]}
    /\ show_theme = <<>>
    /\ astronomy_show = SampleShows
    /\ show_session = <<[astronomy_show |-> 1, planetarium_dome |-> 1,
                          show_begin |-> MaxTime]>>
    /\ reservation = <<>>
    /\ ticket = EmptyBag
    /\ response = NoResponse
    /\ request = <<>>

\* The clients of the reference data: anonymous, a customer, a staff member.
AdminCallers == {Anonymous, "test@test.com", "admin@admin.com"}

\* The payloads of the reference data requests.
DomePayloads == {Given(<<[row_number |-> MaxRow, seats_in_row |-> 1]>>)}
ThemeNames == {"Show theme"}
ShowTitles == {"Astronomy show"}

NextAdmin ==
    \E user \in AdminCallers, method \in Methods, detail \in BOOLEAN :
        \/ \E pk \in 1..MaxDomes, rows \in DomePayloads :
                PlanetariumDomeViewSet(user, method, detail, pk,
                                       "Zeiss hybrid dome", rows)
        \/ \E pk \in 1..MaxThemes, name \in ThemeNames :
                ShowThemeViewSet(user, method, detail, pk, name)
        \/ \E pk \in 1..MaxShows, title \in ShowTitles :
                AstronomyShowViewSet(user, method, detail, pk, title)
        \/ \E pk \in 1..MaxSessions, show \in 1..MaxShows, d \in 1..MaxDomes :
                ShowSessionViewSet(user, method, detail, pk, show, d, MaxTime)

SpecAdmin == InitAdmin /\ [][NextAdmin]_vars

\* ------------------------------------------------------------ the schedule
\* The slice [:5] of get_future_show_sessions.
FutureLimit == 5

\* ShowSession.Meta.ordering = ["show_begin", "astronomy_show"]: session s
\* does not come after session u.
ordering(db, s, u) ==
    LET a == db.show_session[s]
        b == db.show_session[u]
    IN  \/ a.show_begin < b.show_begin
        \/ a.show_begin = b.show_begin /\ a.astronomy_show <= b.astronomy_show

\* ORDER BY the model's ordering, LIMIT k, over the sessions S: every
\* sequence the database may return, the sessions the ordering does not tell
\* apart coming in any order.
RECURSIVE OrderedLimit(_, _, _)
OrderedLimit(db, S, k) ==
    IF k = 0 \/ S = {} THEN {<<>>}
    ELSE LET least == {s \in S : \A u \in S : ordering(db, s, u)}
         IN  UNION {{<<s>> \o rest : rest \in OrderedLimit(db, S \ {s}, k - 1)} :
                        s \in least}

\* get_future_show_sessions without the slice.
get_future_show_sessions_unsliced(db, show, now) ==
    LET found == {s \in DOMAIN db.show_session :
                    /\ db.show_session[s].show_begin >= now
                    /\ db.show_session[s].astronomy_show = show}
    IN  OrderedLimit(db, found, Cardinality(found))

\* AstronomyShowDetailSerializer.get_future_show_sessions at the instant
\* now: the filter on show_begin and astronomy_show, sliced [:5]; the ids of
\* the sessions ShowSessionSerializer represents, in their order.
get_future_show_sessions(db, show, now) ==
    LET found == {s \in DOMAIN db.show_session :
                    /\ db.show_session[s].show_begin >= now
                    /\ db.show_session[s].astronomy_show = show}
    IN  OrderedLimit(db, found, FutureLimit)

\* GET /astronomy_shows/{pk}/ served at the instant now: retrieve with
\* AstronomyShowDetailSerializer.
RetrieveShow(user, pk, now) ==
    /\ LET out == AstronomyShowView(DB, user, "GET", TRUE, pk, "Sample title")
       IN  IF out.error /= NoError
           THEN ViewResponse("astronomy_shows", "GET", out)
           ELSE \E listed \in get_future_show_sessions(DB, pk, now) :
                    Respond("astronomy_shows", NoError, 200, pk,
                            [now |-> now, future_show_sessions |-> listed])
    /\ UNCHANGED <<planetarium_dome, seat_row, show_theme, astronomy_show,
                   show_session, reservation, ticket, request>>

\* A schedule of MaxScheduled sessions in one dome, beginning at any
\* instants: sessions of show 1 and a last session of any show.
InitSchedule ==
    /\ planetarium_dome = <<[name |-> "Sample dome"]>>
    /\ seat_row = {[planetarium_dome |-> 1, row_number |-> MaxRow,
                    seats_in_row |-> MaxSeats]}
    /\ show_theme = <<>>
    /\ astronomy_show = [x \in 1..MaxShows |-> [title |-> "Sample title"]]
    /\ show_session \in [1..MaxScheduled -> [astronomy_show : 1..MaxShows,
                                              planetarium_dome : {1},
                                              show_begin : Times]]
    /\ \A s \in 1..(MaxScheduled - 1) : show_session[s].astronomy_show = 1
    /\ reservation = <<>>
    /\ ticket = EmptyBag
    /\ response = NoResponse
    /\ request = <<>>

NextSchedule ==
    \E pk \in 1..(MaxShows + 1), now \in Times : RetrieveShow(Anonymous, pk, now)

SpecSchedule == InitSchedule /\ [][NextSchedule]_vars

\* ------------------------------------------------- tickets saved directly
\* Ticket.objects.create(show_session, reservation, row, seat) called
\* without the serializer (the admin inline, the test helpers): Ticket.save.
\* The outcome is recorded as the API would answer the exception.
TicketObjectsCreate(res, t) ==
    /\ res \in DOMAIN reservation
    /\ t.show_session \in DOMAIN show_session
    /\ LET saved == TicketSave(DB, res, t)
       IN  /\ ticket' = saved.db.ticket
           /\ Respond("Ticket.objects.create", saved.error, 201, res, saved.detail)
    /\ UNCHANGED <<planetarium_dome, seat_row, show_theme, astronomy_show,
                   show_session, reservation, request>>

\* The fixture: domes, rows and sessions, no reservation yet.
InitTicket ==
    /\ Fixture
    /\ response = NoResponse
    /\ request = <<>>

\* Reservation.objects.create(user=user)
ReservationObjectsCreate(user) ==
    /\ Cardinality(DOMAIN reservation) < MaxReservations
    /\ reservation' = WithRow(reservation, NextReservationId(DB), [user |-> user])
    /\ Respond("Reservation.objects.create", NoError, 201, NextReservationId(DB),
               NoDetail)
    /\ UNCHANGED <<planetarium_dome, seat_row, show_theme, astronomy_show,
                   show_session, ticket, request>>

NextTicket ==
    \/ \E user \in Users : ReservationObjectsCreate(user)
    \/ \E res \in 1..MaxReservations, t \in TicketInputs : TicketObjectsCreate(res, t)
    \/ \E user \in Users, field \in AccessLists : CreateReservation(user, field)
    \/ \E d \in DomeIds, name \in Names, rows \in LayoutEdits :
            UpdateDome(d, FALSE, name, rows)

SpecTicket == InitTicket /\ [][NextTicket]_vars


\* ------------------------------------------- concurrent reservations
\* Each client sends one POST /reservations/.  The request is validated
\* against the committed tables, then create() runs in a transaction whose
\* writes (held) stay private until it commits.
Clients == 1..MaxClients

Idle == [pc |-> "idle", user |-> "none", items |-> <<>>, i |-> 0, res |-> 0,
         held |-> EmptyBag, error |-> NoError]

\* What the transaction of client c reads: the committed rows and its own.
View(c) == [DB EXCEPT !.ticket = @ (+) request[c].held]

\* Rows other open transactions have inserted and not yet committed.
HeldByOthers(c) ==
    {t \in UNION {BagToSet(request[o].held) : o \in Clients \ {c}} : TRUE}

\* The seat of ticket t is held by an open transaction other than c's:
\* the insert waits on the unique index until that transaction ends.
Blocked(c, t) ==
    \E h \in HeldByOthers(c) :
        h.show_session = t.show_session /\ h.row = t.row /\ h.seat = t.seat

Finish(c, error) ==
    request' = [request EXCEPT ![c].pc = "done", ![c].error = error,
                               ![c].held = EmptyBag]

Tables == <<planetarium_dome, seat_row, show_theme, astronomy_show,
            show_session, reservation, ticket>>

\* The view receives the request and runs serializer.is_valid().
Receive(c, user, field) ==
    /\ request[c].pc = "idle"
    /\ LET invalid == ReservationValidation(DB, field)
       IN  IF invalid.error /= NoError
           THEN request' = [request EXCEPT ![c].pc = "done",
                                ![c].user = user, ![c].items = field.items,
                                ![c].error = invalid.error]
           ELSE request' = [request EXCEPT ![c].pc = "begin",
                                ![c].user = user, ![c].items = field.items]
    /\ UNCHANGED <<Tables, response>>

\* The Reservation row inserted outside a transaction: visible at once.
InsertReservationAutocommit(c) ==
    /\ request[c].pc = "begin"
    /\ LET used == DOMAIN reservation \cup {request[o].res : o \in Clients}
           res == CHOOSE n \in 1..(Cardinality(used) + 1) : n \notin used
       IN  /\ request' = [request EXCEPT ![c].pc = "clean", ![c].res = res,
                                         ![c].i = 1]
           /\ reservation' = [x \in DOMAIN reservation \cup {res} |->
                                IF x = res THEN [user |-> request[c].user]
                                ELSE reservation[x]]
    /\ UNCHANGED <<planetarium_dome, seat_row, show_theme, astronomy_show,
                   show_session, ticket, response>>

\* transaction.atomic() is entered and the Reservation row is inserted.
InsertReservation(c) ==
    /\ request[c].pc = "begin"
    /\ LET used == DOMAIN reservation \cup {request[o].res : o \in Clients}
           res == CHOOSE n \in 1..(Cardinality(used) + 1) : n \notin used
       IN  request' = [request EXCEPT ![c].pc = "clean", ![c].res = res,
                                      ![c].i = 1]
    /\ UNCHANGED <<Tables, response>>

\* Ticket.save of ticket i, first half: full_clean().
FullClean(c) ==
    /\ request[c].pc = "clean"
    /\ LET r == request[c]
           t == r.items[r.i]
           checked == full_clean(View(c), t)
       IN  IF checked.error /= NoError
           THEN Finish(c, checked.error)
           ELSE request' = [request EXCEPT ![c].pc = "insert"]
    /\ UNCHANGED <<Tables, response>>

\* Ticket.save of ticket i, second half: the INSERT.
InsertTicket(c) ==
    /\ request[c].pc = "insert"
    /\ LET r == request[c]
           t == r.items[r.i]
       IN  /\ ~Blocked(c, t)
           /\ IF UniqueIndexViolation(View(c).ticket, t)
              THEN Finish(c, "IntegrityError")
              ELSE request' = [request EXCEPT
                        ![c].held = @ (+) SetToBag({TicketRow(r.res, t)}),
                        ![c].i = @ + 1,
                        ![c].pc = IF r.i < Len(r.items) THEN "clean" ELSE "commit"]
    /\ UNCHANGED <<Tables, response>>

\* The atomic block is left: the reservation and its tickets are committed.
Commit(c) ==
    /\ request[c].pc = "commit"
    /\ reservation' = [x \in DOMAIN reservation \cup {request[c].res} |->
                            IF x = request[c].res
                            THEN [user |-> request[c].user]
                            ELSE reservation[x]]
    /\ ticket' = ticket (+) request[c].held
    /\ Finish(c, NoError)
    /\ UNCHANGED <<planetarium_dome, seat_row, show_theme, astronomy_show,
                   show_session, response>>

\* Two transactions each wait for a seat the other holds: the database
\* ends the wait by aborting one of them.
DeadlockAbort(c) ==
    /\ request[c].pc = "insert"
    /\ \E o \in Clients \ {c} :
            /\ request[o].pc = "insert"
            /\ Blocked(c, request[c].items[request[c].i])
            /\ Blocked(o, request[o].items[request[o].i])
    /\ Finish(c, "OperationalError")
    /\ UNCHANGED <<Tables, response>>

\* The requests of the race: seats of row MaxRow in session 1.
RaceTickets == [show_session : {1}, row : {MaxRow}, seat : 1..MaxSeats]
RaceLists == {Given(l) : l \in SeqUpTo(RaceTickets, MaxBatch) \ {<<>>}}

InitRace ==
    /\ planetarium_dome = [d \in DomeIds |-> [name |-> "Sample dome"]]
    /\ seat_row = {[planetarium_dome |-> d, row_number |-> MaxRow,
                    seats_in_row |-> IF d <= MaxSeats THEN MaxSeats + 1 - d ELSE 1] :
                        d \in DomeIds}
    /\ show_theme = <<>>
    /\ astronomy_show = SampleShows
    /\ show_session \in [SessionIds -> [astronomy_show : DOMAIN SampleShows,
                                         planetarium_dome : DomeIds,
                                         show_begin : {MaxTime}]]
    /\ reservation = <<>>
    /\ ticket = EmptyBag
    /\ response = NoResponse
    /\ request = [c \in Clients |-> Idle]

NextRace ==
    \/ \E c \in Clients, user \in Users, field \in RaceLists : Receive(c, user, field)
    \/ \E c \in Clients : InsertReservation(c)
    \/ \E c \in Clients : FullClean(c)
    \/ \E c \in Clients : InsertTicket(c)
    \/ \E c \in Clients : Commit(c)
    \/ \E c \in Clients : DeadlockAbort(c)

SpecRace == InitRace /\ [][NextRace]_vars

\* ------------------------------------------------ concurrent dome requests
\* Each client sends one POST /planetarium_domes/ or one PUT
\* /planetarium_domes/{d}/.  The serializer's create and update run in a
\* transaction: the rows it inserts and the rows it saves stay private
\* until it commits.
DomeIdle == [pc |-> "idle", op |-> "none", d |-> 0, name |-> "none",
             items |-> <<>>, i |-> 0, validated_rows |-> {},
             inserted |-> {}, updated |-> {}, error |-> NoError]

SameRow(r, q) ==
    r.planetarium_dome = q.planetarium_dome /\ r.row_number = q.row_number

\* The seat rows the transaction of client c reads: the committed rows, with
\* the rows it saved in place of their old values, and the rows it inserted.
DomeView(c) ==
    {r \in seat_row : \A u \in request[c].updated : ~SameRow(r, u)}
        \cup request[c].updated \cup request[c].inserted

\* Row n of dome d is written by an open transaction other than c's: a
\* second write to it waits until that transaction ends.
RowLocked(c, d, n) ==
    \E o \in Clients \ {c} :
        \E h \in request[o].inserted \cup request[o].updated :
            h.planetarium_dome = d /\ h.row_number = n

\* The seat row the client writes next.
RowAt(c) ==
    [planetarium_dome |-> request[c].d,
     row_number |-> request[c].items[request[c].i].row_number,
     seats_in_row |-> request[c].items[request[c].i].seats_in_row]

DomeFinish(c, error) ==
    request' = [request EXCEPT ![c].pc = "done", ![c].error = error,
                               ![c].inserted = {}, ![c].updated = {}]

\* POST /planetarium_domes/: the view runs serializer.is_valid().
ReceiveDomeCreate(c, name, field) ==
    /\ request[c].pc = "idle"
    /\ Cardinality(DOMAIN planetarium_dome
            \cup {request[o].d : o \in {x \in Clients : request[x].op = "create"}})
                < MaxDomes
    /\ LET invalid == DomeValidationError(field, FALSE)
       IN  request' = [request EXCEPT
                ![c].pc = IF invalid = NoError THEN "insert_dome" ELSE "done",
                ![c].op = "create", ![c].name = name,
                ![c].items = field.items, ![c].error = invalid]
    /\ UNCHANGED <<Tables, response>>

\* PUT /planetarium_domes/{d}/: get_object(), then serializer.is_valid().
ReceiveDomeUpdate(c, d, name, field) ==
    /\ request[c].pc = "idle"
    /\ LET invalid == IF d \notin DOMAIN planetarium_dome THEN "Http404"
                      ELSE DomeValidationError(field, FALSE)
       IN  request' = [request EXCEPT
                ![c].pc = IF invalid = NoError THEN "get" ELSE "done",
                ![c].op = "update", ![c].d = d, ![c].name = name,
                ![c].items = field.items, ![c].i = 1, ![c].error = invalid]
    /\ UNCHANGED <<Tables, response>>

\* create(): transaction.atomic() is entered and the dome is inserted.
InsertDomeAutocommit(c) ==
    /\ request[c].pc = "insert_dome"
    /\ LET used == DOMAIN planetarium_dome
                    \cup {request[o].d : o \in {x \in Clients : request[x].op = "create"}}
           d == CHOOSE n \in 1..(Cardinality(used) + 1) : n \notin used
       IN  /\ request' = [request EXCEPT ![c].pc = "create", ![c].d = d, ![c].i = 1]
           /\ planetarium_dome' = WithRow(planetarium_dome, d, [name |-> request[c].name])
    /\ UNCHANGED <<seat_row, show_theme, astronomy_show, show_session,
                   reservation, ticket, response>>

InsertDome(c) ==
    /\ request[c].pc = "insert_dome"
    /\ LET used == DOMAIN planetarium_dome
                    \cup {request[o].d : o \in {x \in Clients : request[x].op = "create"}}
           d == CHOOSE n \in 1..(Cardinality(used) + 1) : n \notin used
       IN  request' = [request EXCEPT ![c].pc = "create", ![c].d = d, ![c].i = 1]
    /\ UNCHANGED <<Tables, response>>

\* update(), row i: the check against validated_rows, then
\* SeatRow.objects.get.
GetSeatRow(c) ==
    /\ request[c].pc = "get"
    /\ LET row == RowAt(c)
       IN  IF row.row_number \in request[c].validated_rows
           THEN DomeFinish(c, "duplicate_row")
           ELSE request' = [request EXCEPT
                    ![c].validated_rows = @ \cup {row.row_number},
                    ![c].pc = IF SeatRowsMatching(DomeView(c), row.planetarium_dome,
                                                  row.row_number) /= {}
                              THEN "save" ELSE "create"]
    /\ UNCHANGED <<Tables, response>>

\* The pc of client c after it has written row i.
AfterRow(c) ==
    IF request[c].i >= Len(request[c].items) THEN "commit"
    ELSE IF request[c].op = "update" THEN "get" ELSE "create"

\* update(), row i found: seat_row.save(), an UPDATE of the stored row.
SaveSeatRow(c) ==
    /\ request[c].pc = "save"
    /\ ~RowLocked(c, request[c].d, RowAt(c).row_number)
    /\ request' = [request EXCEPT ![c].updated = @ \cup {RowAt(c)},
                                  ![c].i = @ + 1, ![c].pc = AfterRow(c)]
    /\ UNCHANGED <<Tables, response>>

\* The UniqueConstraint of SeatRow left out.
UniqueConstraintNever(rows, row) == FALSE

\* SeatRow.Meta.constraints: UniqueConstraint on (planetarium_dome_id,
\* row_number), checked by the INSERT.
UniqueConstraint(rows, row) ==
    SeatRowsMatching(rows, row.planetarium_dome, row.row_number) /= {}

\* create(), and update() for a row not found: SeatRow.objects.create.
CreateSeatRow(c) ==
    /\ request[c].pc = "create"
    /\ ~RowLocked(c, request[c].d, RowAt(c).row_number)
    /\ IF UniqueConstraint(DomeView(c), RowAt(c))
       THEN DomeFinish(c, "IntegrityError")
       ELSE request' = [request EXCEPT ![c].inserted = @ \cup {RowAt(c)},
                                       ![c].i = @ + 1, ![c].pc = AfterRow(c)]
    /\ UNCHANGED <<Tables, response>>

\* The atomic block is left: the dome and the rows written are committed.
CommitDome(c) ==
    /\ request[c].pc = "commit"
    /\ planetarium_dome' =
            IF request[c].op = "create"
            THEN WithRow(planetarium_dome, request[c].d, [name |-> request[c].name])
            ELSE planetarium_dome
    /\ seat_row' = DomeView(c)
    /\ DomeFinish(c, NoError)
    /\ UNCHANGED <<show_theme, astronomy_show, show_session, reservation,
                   ticket, response>>

\* Two transactions each wait for a row the other has written: the database
\* ends the wait by aborting one of them.
DomeDeadlockAbort(c) ==
    /\ request[c].pc \in {"save", "create"}
    /\ \E o \in Clients \ {c} :
            /\ request[o].pc \in {"save", "create"}
            /\ RowLocked(c, request[c].d, RowAt(c).row_number)
            /\ RowLocked(o, request[o].d, RowAt(o).row_number)
    /\ DomeFinish(c, "OperationalError")
    /\ UNCHANGED <<Tables, response>>

\* The row lists of the concurrent requests: rows of at least one seat.
RaceRowLists ==
    {Given(l) : l \in SeqUpTo([row_number : RowNumberInputs,
                               seats_in_row : 1..MaxSeats], MaxBatch)}

\* One dome with row MaxRow.
InitDomeRace ==
    /\ planetarium_dome = <<[name |-> "Sample dome"]>>
    /\ seat_row = {[planetarium_dome |-> 1, row_number |-> MaxRow,
                    seats_in_row |-> MaxSeats]}
    /\ show_theme = <<>>
    /\ astronomy_show = <<>>
    /\ show_session = <<>>
    /\ reservation = <<>>
    /\ ticket = EmptyBag
    /\ response = NoResponse
    /\ request = [c \in Clients |-> DomeIdle]

NextDomeRace ==
    \/ \E c \in Clients, field \in RaceRowLists :
            ReceiveDomeCreate(c, "Zeiss hybrid dome", field)
    \/ \E c \in Clients, d \in DomeIds, field \in RaceRowLists :
            ReceiveDomeUpdate(c, d, "Sample dome", field)
    \/ \E c \in Clients : InsertDome(c)
    \/ \E c \in Clients : GetSeatRow(c)
    \/ \E c \in Clients : SaveSeatRow(c)
    \/ \E c \in Clients : CreateSeatRow(c)
    \/ \E c \in Clients : CommitDome(c)
    \/ \E c \in Clients : DomeDeadlockAbort(c)

SpecDomeRace == InitDomeRace /\ [][NextDomeRace]_vars

\* =================================================================
\* Properties
\* =================================================================
SameSeat(t, u) ==
    t.show_session = u.show_session /\ t.row = u.row /\ t.seat = u.seat

\* The number of tickets of the table tks that hold the seat of t.
SoldCopies(tks, t) ==
    BagCardinality([u \in {x \in BagToSet(tks) : SameSeat(x, t)} |-> tks[u]])

\* C1: in every reachable state (after any sequence of reservation
\* creations, dome updates and session updates) no two distinct tickets
\* share the same (show_session, row, seat).
NoSeatSoldTwice ==
    \A t \in BagToSet(ticket) : SoldCopies(ticket, t) = 1

\* A request for a seat that is already sold has been refused, while the
\* same (row, seat) is sold in two different sessions.
SoldSeatRefused ==
    /\ response.op = "create_reservation"
    /\ response.error = "unique"
    /\ \E t, u \in BagToSet(ticket) :
            t.show_session /= u.show_session /\ t.row = u.row /\ t.seat = u.seat

\* The outcomes a request ends with when its seat is already sold: the
\* serializer's unique-together validator, validate_unique() of full_clean()
\* and the unique index.
ConflictErrors == {"unique", "DjangoValidationError", "IntegrityError"}

\* Clients c and o have both finished a request for the one identical
\* (session, row, seat), a seat of the session's dome, and no other client
\* has asked for that seat.
Raced(c, o) ==
    /\ c /= o
    /\ request[c].pc = "done" /\ request[o].pc = "done"
    /\ Len(request[c].items) = 1
    /\ request[o].items = request[c].items
    /\ LET t == request[c].items[1]
       IN  /\ validate_seat(seat_row, t.row, t.seat,
                    show_session[t.show_session].planetarium_dome).error = NoError
           /\ \A x \in Clients \ {c, o} :
                \A i \in 1..Len(request[x].items) : ~SameSeat(request[x].items[i], t)

RECURSIVE RequestedTickets(_, _, _)
RequestedTickets(items, res, i) ==
    IF i > Len(items) THEN EmptyBag
    ELSE SetToBag({TicketRow(res, items[i])}) (+) RequestedTickets(items, res, i + 1)

\* C3: createReservation is all-or-nothing: for every batch of requested
\* tickets, in every reachable state, either one reservation and every
\* requested ticket are created, or the call fails and the tables are
\* exactly what they were before the call.
ReservationAllOrNothing ==
    \A user \in Users, field \in TicketLists :
        LET out == ReservationOutcome(DB, user, field)
        IN  IF out.error = NoError
            THEN /\ out.id \notin DOMAIN reservation
                 /\ DOMAIN out.db.reservation = DOMAIN reservation \cup {out.id}
                 /\ out.db.reservation[out.id].user = user
                 /\ \A r \in DOMAIN reservation :
                        out.db.reservation[r] = reservation[r]
                 /\ out.db.ticket = ticket (+) RequestedTickets(field.items, out.id, 1)
                 /\ out.db.seat_row = seat_row
            ELSE out.db = DB

\* A batch was rolled back after its first ticket had been inserted: the
\* second ticket of the batch named the same seat.
BatchRolledBack ==
    /\ response.op = "create_reservation"
    /\ response.error = "DjangoValidationError"
    /\ response.status = 500

\* C4: for a session whose dome has a row r with seats_in_row = K and a seat
\* (r, N) not yet sold for that session, booking (r, N) succeeds if and only
\* if 1 <= N <= K; otherwise it fails with a ValidationError (400) on field
\* "seat" that reports the range [1, K] and the offending N.
SeatBookableIffInRange ==
    \A s \in DOMAIN show_session, r \in RowNumberInputs, n \in 0..(MaxSeats + 1),
       user \in Users :
        LET t == [show_session |-> s, row |-> r, seat |-> n]
            rows == {x \in seat_row :
                        /\ x.planetarium_dome = show_session[s].planetarium_dome
                        /\ x.row_number = r}
            out == ReservationOutcome(DB, user, Given(<<t>>))
        IN  (rows /= {} /\ \A u \in BagToSet(ticket) : ~SameSeat(u, t)) =>
                \A x \in rows :
                    /\ (out.error = NoError) <=> (1 <= n /\ n <= x.seats_in_row)
                    /\ out.error = NoError =>
                            BagIn(TicketRow(out.id, t), out.db.ticket)
                    /\ out.error /= NoError =>
                        /\ out.error = "seat_range"
                        /\ StatusOf(out.error, 201) = 400
                        /\ out.detail = [field |-> "seat", lo |-> 1,
                                         hi |-> x.seats_in_row, got |-> n]

\* A seat above the row's last seat was refused with the range message.
SeatAboveRowRefused ==
    /\ response.op = "create_reservation"
    /\ response.status = 400
    /\ response.error = "seat_range"
    /\ response.detail.hi >= 1
    /\ response.detail.got = response.detail.hi + 1

\* C5: in every reachable state, also after a dome's rows are updated or a
\* session is moved to another dome, every persisted ticket (row, seat) has
\* a SeatRow numbered row in its session's dome with 1 <= seat <= seats_in_row.
TicketsFitTheDome ==
    \A t \in BagToSet(ticket) :
        \E x \in seat_row :
            /\ x.planetarium_dome = show_session[t.show_session].planetarium_dome
            /\ x.row_number = t.row
            /\ 1 <= t.seat /\ t.seat <= x.seats_in_row

\* C6: for every session S in every reachable state, availableSeats(S) =
\* capacity(S.dome) - number of tickets of S is >= 0.
AvailableSeatsNeverNegative ==
    \A s \in DOMAIN show_session : get_available_seats(DB, s) >= 0

\* The seats of row n of dome d; 0 when the dome has no such row.
SeatsAt(rows, d, n) ==
    IF \E x \in rows : x.planetarium_dome = d /\ x.row_number = n
    THEN (CHOOSE x \in rows : x.planetarium_dome = d /\ x.row_number = n).seats_in_row
    ELSE 0

\* The seats of the rows 0..n of dome d.
RECURSIVE SeatsUpToRow(_, _, _)
SeatsUpToRow(rows, d, n) ==
    IF n < 0 THEN 0 ELSE SeatsAt(rows, d, n) + SeatsUpToRow(rows, d, n - 1)

\* What the list items add to the seats of dome d, from item i on.
RECURSIVE SeatsAdded(_, _, _, _)
SeatsAdded(rows, d, items, i) ==
    IF i > Len(items) THEN 0
    ELSE items[i].seats_in_row - SeatsAt(rows, d, items[i].row_number)
            + SeatsAdded(rows, d, items, i + 1)

\* C7: for every dome D in every reachable state, capacity(D) equals the sum
\* of seats_in_row over the rows D owns; after a dome create or update that
\* inserts a row or changes a row's seats_in_row, the capacity read next (the
\* "capacity" of the returned representation) reflects the new row set.
CapacityIsSumOfRows ==
    /\ \A d \in DOMAIN planetarium_dome :
            capacity(seat_row, d) = SeatsUpToRow(seat_row, d, MaxRow)
    /\ \A name \in Names, field \in DomeRowLists :
            LET out == DomeCreateOutcome(DB, name, field)
            IN  out.error = NoError =>
                    DomeBody(out.db, out.id).capacity
                        = SeatsAdded({}, out.id, field.items, 1)
    /\ \A d \in DOMAIN planetarium_dome, partial \in BOOLEAN, field \in DomeRowLists :
            \A name \in Names :
                LET out == DomeUpdateOutcome(DB, d, partial, name, field)
                IN  out.error = NoError =>
                        DomeBody(out.db, d).capacity
                            = capacity(seat_row, d)
                                + SeatsAdded(seat_row, d, field.items, 1)

\* A dome of two rows and at least three seats was returned by an update.
CapacityReadAfterEdit ==
    /\ response.op = "update_dome"
    /\ response.error = NoError
    /\ CountRows(seat_row, response.id) >= 2
    /\ DomeBody(DB, response.id).capacity >= 3

EmptyRowLists == {Missing, Given(<<>>)}

\* C8: creating or updating a dome with an empty (or missing) seat-row list
\* always fails with a ValidationError (HTTP 400), and a failed create never
\* persists a dome.
EmptyRowListRejected ==
    /\ \A name \in Names, field \in EmptyRowLists :
            LET out == DomeCreateOutcome(DB, name, field)
            IN  /\ out.error \in {"required", "empty"}
                /\ StatusOf(out.error, 201) = 400
                /\ out.db = DB
    /\ \A d \in DOMAIN planetarium_dome, partial \in BOOLEAN, name \in Names,
          field \in EmptyRowLists :
            LET out == DomeUpdateOutcome(DB, d, partial, name, field)
            IN  /\ out.error \in {"required", "empty"}
                /\ StatusOf(out.error, 200) = 400
                /\ out.db = DB

\* Some row_number occurs more than once in the list.
HasRepeatedRow(items) ==
    \E i, j \in 1..Len(items) : i < j /\ items[i].row_number = items[j].row_number

\* C9: updating a dome with a row list in which some row_number occurs more
\* than once always fails with ValidationError (400, "Row n is specified
\* multiple times") and leaves the dome and all its rows exactly as before
\* the call, including the rows processed before the duplicate was reached.
RepeatedRowRejectedOnUpdate ==
    \A d \in DOMAIN planetarium_dome, partial \in BOOLEAN, name \in Names,
       field \in DomeRowLists :
        HasRepeatedRow(field.items) =>
            LET out == DomeUpdateOutcome(DB, d, partial, name, field)
            IN  /\ out.error = "duplicate_row"
                /\ StatusOf(out.error, 200) = 400
                /\ out.db = DB

\* An update was refused for a repeated row number; the dome still has a row.
RepeatedRowRefused ==
    /\ response.op = "update_dome"
    /\ response.error = "duplicate_row"
    /\ response.status = 400
    /\ seat_row /= {}

\* C10: creating a dome with a row list in which some row_number occurs more
\* than once is rejected as a validation failure (HTTP 400), and neither the
\* dome nor any of its rows is persisted.
RepeatedRowRejectedOnCreate ==
    \A name \in Names, field \in DomeRowLists :
        HasRepeatedRow(field.items) =>
            LET out == DomeCreateOutcome(DB, name, field)
            IN  /\ StatusOf(out.error, 201) = 400
                /\ out.db = DB

\* The row numbers the list names.
SuppliedRows(items) == {items[i].row_number : i \in 1..Len(items)}

RowNumbersOf(rows, d) == {x.row_number : x \in {r \in rows : r.planetarium_dome = d}}

\* C11: a dome update with a non-empty list of distinct row numbers succeeds
\* and acts as an upsert per supplied row: a row whose row_number the dome
\* already has gets its seats_in_row replaced by the supplied value, a row
\* whose row_number it lacks is inserted, and afterwards the dome has one row
\* per supplied row_number, holding the supplied seats_in_row.
UpdateIsUpsertPerRow ==
    \A d \in DOMAIN planetarium_dome, partial \in BOOLEAN, name \in Names,
       field \in DomeRowLists :
        LET out == DomeUpdateOutcome(DB, d, partial, name, field)
            items == field.items
        IN  /\ (field.given /\ Len(items) > 0 /\ ~HasRepeatedRow(items))
                    => out.error = NoError
            /\ out.error = NoError =>
                /\ \A i \in 1..Len(items) :
                        SeatRowsMatching(out.db.seat_row, d, items[i].row_number)
                            = {[planetarium_dome |-> d,
                                row_number |-> items[i].row_number,
                                seats_in_row |-> items[i].seats_in_row]}
                /\ RowNumbersOf(out.db.seat_row, d)
                        = RowNumbersOf(seat_row, d) \cup SuppliedRows(items)

\* One update replaced the seats of a row the dome had and inserted a row
\* it lacked.
RowReplacedAndRowInserted ==
    /\ response.op = "update_dome"
    /\ response.error = NoError
    /\ \E i, j \in 1..Len(request.field.items) :
        LET old == request.instance.seat_rows
            a == request.field.items[i]
            b == request.field.items[j]
        IN  /\ \E x \in old : x.row_number = a.row_number
                                /\ x.seats_in_row /= a.seats_in_row
            /\ \A x \in old : x.row_number /= b.row_number
            /\ SeatsAt(seat_row, request.d, a.row_number) = a.seats_in_row
            /\ SeatsAt(seat_row, request.d, b.row_number) = b.seats_in_row

\* C12: a dome update leaves untouched every stored row of that dome whose
\* row_number is absent from the supplied list (no implicit deletion), and
\* leaves every row of every other dome unchanged.
UpdateLeavesOtherRows ==
    \A d \in DOMAIN planetarium_dome, partial \in BOOLEAN, name \in Names,
       field \in DomeRowLists :
        LET out == DomeUpdateOutcome(DB, d, partial, name, field)
        IN  /\ \A r \in seat_row :
                    (r.planetarium_dome = d
                        /\ r.row_number \notin SuppliedRows(field.items))
                    => r \in out.db.seat_row
            /\ {r \in out.db.seat_row : r.planetarium_dome /= d}
                    = {r \in seat_row : r.planetarium_dome /= d}

\* A successful update named only a row the dome lacked: the row the dome
\* had is still stored, and so are the rows of the other domes.
UnnamedRowKept ==
    /\ response.op = "update_dome"
    /\ response.error = NoError
    /\ \E x \in request.instance.seat_rows :
            /\ x.row_number \notin SuppliedRows(request.field.items)
            /\ SeatsAt(seat_row, request.d, x.row_number) = x.seats_in_row
            /\ x.seats_in_row >= 1
    /\ \E r \in seat_row : r.planetarium_dome /= request.d

\* C13: a successful dome update applies the supplied name to the dome:
\* after the update the stored and the returned name equal the name of the
\* request.
UpdateAppliesName ==
    (response.op = "update_dome" /\ response.error = NoError) =>
        /\ planetarium_dome[request.d].name = request.name
        /\ DomeBody(DB, response.id).name = request.name

\* The dome of session s has no row numbered r.
RowMissing(db, s, r) ==
    SeatRowsMatching(db.seat_row, db.show_session[s].planetarium_dome, r) = {}

\* C14: validate_seat fails with NotFound when the dome has no SeatRow whose
\* row_number equals the requested row; a reservation request containing
\* such a ticket ends with a NotFound error outcome (404) and creates no
\* reservation and no ticket.
MissingRowIsNotFound ==
    /\ (response.op = "create_reservation" /\ response.error = "DoesNotExist")
            => response.status = 404
    /\ \A user \in Users, s \in DOMAIN show_session, r \in RowNumberInputs,
          n \in 0..(MaxSeats + 1) :
            RowMissing(DB, s, r) =>
                LET t == [show_session |-> s, row |-> r, seat |-> n]
                    out == ReservationOutcome(DB, user, Given(<<t>>))
                IN  /\ validate_seat(seat_row, r, n,
                            show_session[s].planetarium_dome).error = "DoesNotExist"
                    /\ out.error /= NoError
                    /\ out.db = DB

FirstRefused(db, items, i) ==
    /\ TicketValidation(db, items[i]).error /= NoError
    /\ \A j \in 1..(i - 1) : TicketValidation(db, items[j]).error = NoError

\* Some ticket of the list names a row its session's dome lacks and reaches
\* validate_seat.
RaisesDoesNotExist(db, items) ==
    \E j \in 1..Len(items) : TicketValidation(db, items[j]).error = "DoesNotExist"

OwnedBy(user) == {r \in DOMAIN reservation : reservation[r].user = user}

\* C16: reservation reads are scoped to the requester: for every pair of
\* distinct users A and B, in every reachable state, listing reservations as
\* A returns exactly A's reservations, retrieving one of A's own by id
\* returns it, and retrieving by id a reservation owned by B as A does not
\* return it (404).
ReservationReadsAreScoped ==
    \A a, b \in Accounts :
        LET listed == ReservationView(DB, a, "GET", FALSE, 0, Missing)
        IN  /\ listed.error = NoError
            /\ listed.detail.results = OwnedBy(a)
            /\ listed.db = DB
            /\ \A r \in OwnedBy(a) :
                LET got == ReservationView(DB, a, "GET", TRUE, r, Missing)
                IN  got.error = NoError /\ got.id = r
            /\ a /= b =>
                \A r \in OwnedBy(b) :
                    LET got == ReservationView(DB, a, "GET", TRUE, r, Missing)
                    IN  /\ got.error = "Http404"
                        /\ StatusOf(got.error, 200) = 404
                        /\ got.id = 0

\* Two users own a reservation each, and a retrieval of one of these
\* reservations by its id was answered 404.
OthersReservationHidden ==
    /\ response.op = "reservations"
    /\ response.status = 404
    /\ response.detail.method = "GET"
    /\ response.detail.pk \in DOMAIN reservation
    /\ \E r, q \in DOMAIN reservation : reservation[r].user /= reservation[q].user

TicketsOf(tks, r) == {t \in BagToSet(tks) : t.reservation = r}

\* C17: reservations and tickets are immutable once created: PUT, PATCH and
\* DELETE on a reservation return 405 and change nothing, and no step of the
\* API removes a reservation or changes its owner or its tickets.
ReservationsAreImmutable ==
    /\ [](\A user \in Accounts, method \in {"PUT", "PATCH", "DELETE"},
            pk \in 1..(MaxReservations + 1), field \in AccessLists :
            LET out == ReservationView(DB, user, method, TRUE, pk, field)
            IN  /\ out.error = "MethodNotAllowed"
                /\ StatusOf(out.error, SuccessStatus(method)) = 405
                /\ out.db = DB)
    /\ [][\A r \in DOMAIN reservation :
            /\ r \in DOMAIN reservation'
            /\ reservation'[r] = reservation[r]
            /\ TicketsOf(ticket', r) = TicketsOf(ticket, r)
            /\ \A t \in TicketsOf(ticket, r) : ticket'[t] = ticket[t]]_vars

\* A DELETE of a stored reservation was answered 405; its ticket is stored.
ReservationDeleteRefused ==
    /\ response.op = "reservations"
    /\ response.status = 405
    /\ response.detail.method = "DELETE"
    /\ response.detail.pk \in DOMAIN reservation
    /\ TicketsOf(ticket, response.detail.pk) /= {}

\* C19: an unauthenticated caller can never list, retrieve or create
\* reservations: every reservation request without an authenticated user is
\* answered 401 and creates nothing.
AnonymousReservationsRefused ==
    \A method \in Methods, detail \in BOOLEAN, pk \in 1..(MaxReservations + 1),
       field \in AccessLists :
        LET out == ReservationView(DB, Anonymous, method, detail, pk, field)
        IN  /\ out.error = "NotAuthenticated"
            /\ StatusOf(out.error, SuccessStatus(method)) = 401
            /\ out.db = DB

\* A POST without credentials was answered 401 while a reservation exists.
AnonymousPostRefused ==
    /\ response.op = "reservations"
    /\ response.status = 401
    /\ response.detail.method = "POST"
    /\ DOMAIN reservation /= {}

\* The tables of the reference data.
ReferenceData(db) ==
    <<db.planetarium_dome, db.seat_row, db.show_theme, db.astronomy_show,
      db.show_session>>

\* P holds of the outcome of every request of user with the method on a
\* route of the four reference data viewsets.
EveryReferenceOutcome(user, method, detail, P(_)) ==
    /\ \A pk \in 1..MaxDomes, name \in Names, field \in DomePayloads \cup {Missing} :
            P(PlanetariumDomeView(DB, user, method, detail, pk, name, field))
    /\ \A pk \in 1..MaxThemes, name \in ThemeNames :
            P(ShowThemeView(DB, user, method, detail, pk, name))
    /\ \A pk \in 1..MaxShows, title \in ShowTitles :
            P(AstronomyShowView(DB, user, method, detail, pk, title))
    /\ \A pk \in 1..MaxSessions, show \in 1..MaxShows, d \in 1..MaxDomes :
            P(ShowSessionView(DB, user, method, detail, pk, show, d, MaxTime))

\* The request was refused with PermissionDenied (403) and changed nothing.
Forbidden(out) ==
    /\ out.error = "PermissionDenied"
    /\ StatusOf(out.error, 200) = 403
    /\ out.db = DB

\* The request was refused with MethodNotAllowed (405) and changed nothing.
NotAllowed(out) ==
    /\ out.error = "MethodNotAllowed"
    /\ StatusOf(out.error, 200) = 405
    /\ out.db = DB

KeepsReferenceData(out) == ReferenceData(out.db) = ReferenceData(DB)

\* C18: an authenticated non-admin user attempting to create, update or
\* delete a dome, show theme, astronomy show or show session receives 403
\* and the stored reference data is unchanged; only requests of admin
\* (staff) users change reference data.
OnlyAdminChangesReferenceData ==
    /\ \A user \in Accounts, method \in Methods \ SAFE_METHODS, detail \in BOOLEAN :
        ~is_staff(user) => EveryReferenceOutcome(user, method, detail, Forbidden)
    /\ \A user \in Callers, method \in Methods, detail \in BOOLEAN :
        ~is_staff(user) =>
            EveryReferenceOutcome(user, method, detail, KeepsReferenceData)

\* A POST of a show theme was answered 403 after an admin had created a
\* theme and a second dome.
CustomerWriteRefused ==
    /\ response.op = "show_themes"
    /\ response.status = 403
    /\ response.detail.method = "POST"
    /\ DOMAIN show_theme /= {}
    /\ Cardinality(DOMAIN planetarium_dome) = MaxDomes

\* P holds of the outcome of every DELETE by user on the detail routes of
\* domes, show themes and show sessions.
EveryDeleteOutcome(user, P(_)) ==
    /\ \A pk \in 1..MaxDomes, name \in Names, field \in DomePayloads :
            P(PlanetariumDomeView(DB, user, "DELETE", TRUE, pk, name, field))
    /\ \A pk \in 1..MaxThemes, name \in ThemeNames :
            P(ShowThemeView(DB, user, "DELETE", TRUE, pk, name))
    /\ \A pk \in 1..MaxSessions, show \in 1..MaxShows, d \in 1..MaxDomes :
            P(ShowSessionView(DB, user, "DELETE", TRUE, pk, show, d, MaxTime))

\* C20: authorization is decided before method support: DELETE on a dome,
\* show theme or show session returns 403 for an authenticated non-admin
\* user and 405 for an admin user, and in both cases nothing is deleted.
DeleteForbiddenBeforeNotAllowed ==
    \A user \in Accounts :
        IF is_staff(user) THEN EveryDeleteOutcome(user, NotAllowed)
        ELSE EveryDeleteOutcome(user, Forbidden)

\* A DELETE of a show session was answered 403; the session is stored.
CustomerDeleteForbidden ==
    /\ response.op = "show_sessions"
    /\ response.status = 403
    /\ response.detail.method = "DELETE"
    /\ DOMAIN show_session /= {}

\* The sessions of the show that begin at the instant now or later.
FutureSessions(show, now) ==
    {s \in DOMAIN show_session :
        /\ show_session[s].astronomy_show = show
        /\ show_session[s].show_begin >= now}

\* C21: for every show and every state, futureShowSessions(show) returns at
\* most 5 sessions, all of that show, all with show_begin >= now, ordered by
\* show_begin ascending, and they are the earliest such sessions: no future
\* session earlier than a returned one is left out, and none is left out
\* while fewer than 5 are returned.
FutureShowSessionsAreEarliestFive ==
    \A show \in DOMAIN astronomy_show, now \in Times :
        \A listed \in get_future_show_sessions(DB, show, now) :
            LET begin(i) == show_session[listed[i]].show_begin
                returned == {listed[i] : i \in 1..Len(listed)}
                future == FutureSessions(show, now)
            IN  /\ Len(listed) <= 5
                /\ returned \subseteq future
                /\ Cardinality(returned) = Len(listed)
                /\ \A i, j \in 1..Len(listed) : i < j => begin(i) <= begin(j)
                /\ \A s \in future \ returned, i \in 1..Len(listed) :
                        show_session[s].show_begin >= begin(i)
                /\ Len(listed) < 5 => returned = future

\* A show with more than five future sessions was retrieved: five were
\* listed, beginning at different instants, and a later one was left out.
FutureSessionsCutAtFive ==
    /\ response.op = "astronomy_shows"
    /\ response.error = NoError
    /\ "future_show_sessions" \in DOMAIN response.detail
    /\ Len(response.detail.future_show_sessions) = 5
    /\ Cardinality(FutureSessions(response.id, response.detail.now)) > 5
    /\ \E i, j \in 1..5 :
            show_session[response.detail.future_show_sessions[i]].show_begin
                < show_session[response.detail.future_show_sessions[j]].show_begin

\* C22: an admin DELETE of an astronomy show succeeds (204, the show is
\* removed and nothing else changes) when no show session references it, and
\* is blocked with the show and its sessions left intact while any session
\* references it; consequently every show session always references an
\* existing show and an existing dome.
ReferencedShowIsKept ==
    /\ \A pk \in DOMAIN astronomy_show, title \in ShowTitles :
        LET out == AstronomyShowView(DB, "admin@admin.com", "DELETE", TRUE, pk, title)
        IN  IF \E s \in DOMAIN show_session : show_session[s].astronomy_show = pk
            THEN out.error /= NoError /\ out.db = DB
            ELSE /\ out.error = NoError
                 /\ StatusOf(out.error, SuccessStatus("DELETE")) = 204
                 /\ DOMAIN out.db.astronomy_show = DOMAIN astronomy_show \ {pk}
                 /\ \A x \in DOMAIN out.db.astronomy_show :
                        out.db.astronomy_show[x] = astronomy_show[x]
                 /\ out.db = [DB EXCEPT !.astronomy_show = out.db.astronomy_show]
    /\ \A s \in DOMAIN show_session :
            /\ show_session[s].astronomy_show \in DOMAIN astronomy_show
            /\ show_session[s].planetarium_dome \in DOMAIN planetarium_dome

\* A DELETE of an astronomy show was answered 204 and left one show, which
\* every scheduled session presents.
UnreferencedShowDeleted ==
    /\ response.op = "astronomy_shows"
    /\ response.status = 204
    /\ Cardinality(DOMAIN astronomy_show) = 1
    /\ Cardinality(DOMAIN show_session) = MaxSessions
    /\ \A s \in DOMAIN show_session :
            show_session[s].astronomy_show \in DOMAIN astronomy_show

\* C23: in every reachable state, including the states reached by interleaved
\* concurrent dome updates that each add the same new row_number, no dome
\* owns two seat rows with the same row_number.
RowNumbersUniqueInDome ==
    \A r, q \in seat_row : SameRow(r, q) => r = q

\* Two updates of one dome each found a row number missing and inserted it
\* with different seats: one committed its row, the other was stopped by
\* the unique constraint.
SameNewRowRaced ==
    \E c, o \in Clients :
        /\ request[c].op = "update" /\ request[o].op = "update"
        /\ request[c].pc = "done" /\ request[o].pc = "done"
        /\ request[c].d = request[o].d
        /\ request[c].error = NoError
        /\ request[o].error = "IntegrityError"
        /\ \E i \in 1..Len(request[c].items), j \in 1..Len(request[o].items) :
            LET a == request[c].items[i]
                b == request[o].items[j]
            IN  /\ a.row_number = b.row_number
                /\ a.seats_in_row /= b.seats_in_row
                /\ SeatRowsMatching(seat_row, request[c].d, a.row_number)
                    = {[planetarium_dome |-> request[c].d,
                        row_number |-> a.row_number,
                        seats_in_row |-> a.seats_in_row]}

\* C24: dome creation is atomic with respect to readers: no reader ever
\* observes a dome created through the create operation with zero seat
\* rows, neither while the creation is in progress (the dome is not visible
\* before its rows are) nor in any state after it has returned successfully.
NoDomeWithoutRows ==
    /\ \A d \in DOMAIN planetarium_dome : CountRows(seat_row, d) >= 1
    /\ \A c \in Clients :
        request[c].op = "create" =>
            /\ request[c].pc \in {"create", "commit"} =>
                    /\ request[c].d \notin DOMAIN planetarium_dome
                    /\ CountRows(seat_row, request[c].d) = 0
            /\ (request[c].pc = "done" /\ request[c].error = NoError) =>
                    /\ request[c].d \in DOMAIN planetarium_dome
                    /\ CountRows(seat_row, request[c].d) >= 1

\* A creation is in progress, its dome and first row inserted and a second
\* row still to come, while another request has finished.
DomeCreationInProgress ==
    \E c, o \in Clients :
        /\ request[c].op = "create"
        /\ request[c].pc = "create"
        /\ request[c].inserted /= {}
        /\ request[o].pc = "done"
        /\ request[o].error = NoError

\* The tickets of reservation r in the table tks, with their copies.
TicketBagOf(tks, r) == [t \in TicketsOf(tks, r) |-> tks[t]]

\* C25: reservation creation is atomic with respect to concurrent readers:
\* at no intermediate point of createReservation can a reader observe the
\* reservation with only a proper subset of its requested tickets (a stored
\* reservation has all the tickets of its request, a reservation in progress
\* is not stored and neither are its tickets), and every reservation
\* created through the API has at least one ticket.
ReservationsAreWhole ==
    /\ \A r \in DOMAIN reservation :
        /\ TicketsOf(ticket, r) /= {}
        /\ \E c \in Clients :
            /\ request[c].res = r
            /\ request[c].pc = "done"
            /\ request[c].error = NoError
            /\ reservation[r].user = request[c].user
            /\ TicketBagOf(ticket, r) = RequestedTickets(request[c].items, r, 1)
    /\ \A c \in Clients :
        request[c].pc \in {"clean", "insert", "commit"} =>
            /\ request[c].res \notin DOMAIN reservation
            /\ TicketsOf(ticket, request[c].res) = {}

\* A request for two tickets has inserted its first ticket and not yet its
\* second, while the reservation of another request is committed.
ReservationInProgress ==
    \E c, o \in Clients :
        /\ request[c].pc \in {"clean", "insert"}
        /\ Len(request[c].items) = 2
        /\ request[c].i = 2
        /\ request[c].held /= EmptyBag
        /\ request[o].pc = "done"
        /\ request[o].error = NoError
        /\ request[o].res \in DOMAIN reservation

\* C26: seat validation cannot be bypassed by skipping the serializer
\* pre-check: every path that persists a ticket (Ticket.save) runs
\* validate_seat against the session's dome immediately before the insert,
\* and no ticket failing the check is ever written; the pre-check
\* (TicketSerializer.validate) and the persistence check (Ticket.clean)
\* accept exactly the same (row, seat, dome) triples.
SeatCheckNotBypassed ==
    \A t \in TicketInputs :
        t.show_session \in DOMAIN show_session =>
            LET dome == show_session[t.show_session].planetarium_dome
                check == validate_seat(seat_row, t.row, t.seat, dome)
            IN  /\ (validate(DB, t).error = NoError) <=> (clean(DB, t).error = NoError)
                /\ (validate(DB, t).error = NoError) <=> (check.error = NoError)
                /\ \A res \in DOMAIN reservation :
                    LET saved == TicketSave(DB, res, t)
                    IN  /\ saved.error = NoError => check.error = NoError
                        /\ check.error /= NoError =>
                            /\ saved.error = check.error
                            /\ saved.db = DB
                        /\ saved.db.ticket /= ticket =>
                            /\ check.error = NoError
                            /\ saved.db.ticket
                                = ticket (+) SetToBag({TicketRow(res, t)})

\* A ticket saved without the serializer was refused for a seat past the end
\* of its row, while a ticket saved the same way for a seat of the row is
\* stored.
DirectSaveRefused ==
    /\ response.op = "Ticket.objects.create"
    /\ response.error = "seat_range"
    /\ response.detail.got > response.detail.hi
    /\ ticket /= EmptyBag

\* C27: in every reachable state every stored seat row has seats_in_row >= 1
\* and row_number >= 0; dome create and update reject a row with
\* seats_in_row = 0 (a create or update that succeeded has written no such
\* row).
SeatRowsHaveSeats ==
    /\ \A r \in seat_row : r.seats_in_row >= 1 /\ r.row_number >= 0
    /\ (response.op \in {"create_dome", "update_dome"} /\ response.error = NoError)
            => \A r \in DomeBody(DB, response.id).seat_rows : r.seats_in_row /= 0

\* Some (show_session, row, seat) occurs more than once in the list.
HasRepeatedSeat(items) ==
    \E i, j \in 1..Len(items) : i < j /\ SameSeat(items[i], items[j])

\* C28: a single reservation request that lists the same (show_session, row,
\* seat) more than once fails as a whole: no reservation and no ticket is
\* created, and the seat remains available to later requests (a request for
\* the seat alone is answered after the failure as it was before).
RepeatedSeatFailsAsAWhole ==
    \A user \in Users, field \in TicketLists :
        HasRepeatedSeat(field.items) =>
            LET out == ReservationOutcome(DB, user, field)
            IN  /\ out.error /= NoError
                /\ out.db.reservation = reservation
                /\ out.db.ticket = ticket
                /\ out.db = DB
                /\ \A i \in 1..Len(field.items) :
                    LET alone == Given(<<field.items[i]>>)
                    IN  ReservationOutcome(DB, user, alone).error = NoError =>
                            ReservationOutcome(out.db, user, alone).error = NoError

\* A request naming a free seat twice was refused by validate_unique() at
\* its second ticket; the one reservation stored is an earlier one and every
\* ticket stored belongs to it.
RepeatedSeatRefused ==
    /\ response.op = "create_reservation"
    /\ response.error = "DjangoValidationError"
    /\ DOMAIN reservation = {1}
    /\ ticket /= EmptyBag
    /\ \A t \in BagToSet(ticket) : t.reservation = 1

\* The number of tickets of the list that name session s.
Naming(items, s) == Cardinality({i \in 1..Len(items) : items[i].show_session = s})

\* C29: a successful reservation of n tickets creates exactly one
\* reservation, owned by the requesting user, and exactly n tickets attached
\* to it; for each session S, availableSeats(S) decreases by exactly the
\* number of requested tickets naming S, and domes, rows, sessions and all
\* previously existing reservations and tickets are unchanged.
ReservationChangesOnlyItsOwn ==
    \A user \in Users, field \in TicketLists :
        LET out == ReservationOutcome(DB, user, field)
            n == Len(field.items)
        IN  out.error = NoError =>
                /\ out.id \notin DOMAIN reservation
                /\ DOMAIN out.db.reservation = DOMAIN reservation \cup {out.id}
                /\ out.db.reservation[out.id] = [user |-> user]
                /\ BagCardinality(TicketBagOf(out.db.ticket, out.id)) = n
                /\ \A i \in 1..n :
                        BagIn(TicketRow(out.id, field.items[i]), out.db.ticket)
                /\ BagCardinality(out.db.ticket) = BagCardinality(ticket) + n
                /\ \A s \in DOMAIN show_session :
                        get_available_seats(out.db, s)
                            = get_available_seats(DB, s) - Naming(field.items, s)
                /\ \A r \in DOMAIN reservation :
                        /\ out.db.reservation[r] = reservation[r]
                        /\ TicketBagOf(out.db.ticket, r) = TicketBagOf(ticket, r)
                /\ out.db.planetarium_dome = planetarium_dome
                /\ out.db.seat_row = seat_row
                /\ out.db.show_session = show_session
                /\ out.db.show_theme = show_theme
                /\ out.db.astronomy_show = astronomy_show

\* A second reservation was created with two tickets that name different
\* sessions; the tickets of the first reservation are still stored.
SecondReservationOfTwoSessions ==
    /\ response.op = "create_reservation"
    /\ response.error = NoError
    /\ response.id = 2
    /\ TicketsOf(ticket, 1) /= {}
    /\ \E t, u \in TicketsOf(ticket, 2) : t.show_session /= u.show_session

====
